---- MODULE Spec2Model ----
(***************************************************************************)
(* Model of conans/model/info.py: RequirementInfo, RequirementsInfo,       *)
(* RequirementsList and ConanInfo (the package-id computation).            *)
(*                                                                         *)
(* Text representation.  A Python str without newlines is a sequence of    *)
(* one-character strings (a "line").  A Python str that may hold newlines  *)
(* is the sequence of its lines, text.split("\n"); this is a bijection:    *)
(* "" is << <<>> >>, and "\n".join(parts) is the concatenation of the      *)
(* parts' line sequences.  Python's None is the value None below.          *)
(***************************************************************************)
EXTENDS Integers, Sequences, FiniteSets, TLC

----------------------------------------------------------------------------
(* Bounds of the explored inputs *)

MaxReqs == 2        \* direct + indirect requirement occurrences handed to one object
MaxPrefix == 3      \* longest prefix of a display text tried by __getitem__
MaxCalls == 2       \* failing package_id() invocations on one object

----------------------------------------------------------------------------
(* Python strings *)

None == <<"None">>

CharOrd(c) ==
    CASE c = "1" -> 49 [] c = "2" -> 50 [] c = "A" -> 65 [] c = "B" -> 66
      [] c = "b" -> 98 [] c = "c" -> 99 [] c = "p" -> 112 [] c = "u" -> 117
      [] OTHER -> 0

RECURSIVE StrLt(_, _)
StrLt(s, t) ==
    IF t = <<>> THEN FALSE
    ELSE IF s = <<>> THEN TRUE
    ELSE IF Head(s) = Head(t) THEN StrLt(Tail(s), Tail(t))
    ELSE CharOrd(Head(s)) < CharOrd(Head(t))

StartsWith(s, p) == Len(p) <= Len(s) /\ SubSeq(s, 1, Len(p)) = p

Truthy(n) == n # None /\ n # <<>>

Str(n) == IF n = None THEN <<"N", "o", "n", "e">> ELSE n

RECURSIVE Join(_, _)
Join(parts, sep) ==
    IF parts = <<>> THEN <<>>
    ELSE IF Len(parts) = 1 THEN parts[1]
    ELSE parts[1] \o sep \o Join(Tail(parts), sep)

\* "\n".join(lines) for newline-free lines, as a text
JoinLines(lines) == IF lines = <<>> THEN << <<>> >> ELSE lines

\* "\n".join(texts)
RECURSIVE JoinTexts(_)
JoinTexts(texts) ==
    IF texts = <<>> THEN << <<>> >>
    ELSE IF Len(texts) = 1 THEN texts[1]
    ELSE texts[1] \o JoinTexts(Tail(texts))

\* text.splitlines()
SplitLines(text) ==
    IF text[Len(text)] = <<>> THEN SubSeq(text, 1, Len(text) - 1) ELSE text

\* index of the first occurrence of character c in s, 0 when absent
RECURSIVE Find(_, _, _)
Find(s, c, i) ==
    IF i > Len(s) THEN 0 ELSE IF s[i] = c THEN i ELSE Find(s, c, i + 1)

----------------------------------------------------------------------------
(* conans.util.sha.sha1: a collision-free digest, written as one line *)

RECURSIVE FlattenText(_)
FlattenText(text) ==
    IF Len(text) = 1 THEN text[1]
    ELSE text[1] \o <<"\n">> \o FlattenText(Tail(text))

sha1(text) == <<"sha1(">> \o FlattenText(text) \o <<")">>

----------------------------------------------------------------------------
(* conans.model.ref.PackageReference and conans.model.version.Version *)

NameA == <<"A">>
NameAB == <<"A", "B">>
Names == {NameA, NameAB}
V1 == <<"1">>
V1b == <<"1", "b">>
V2 == <<"2">>
Versions == {V1, V1b, V2}
UserU == <<"u">>
ChannelC == <<"c">>
PidP == <<"p">>

PackageReference(name, version) ==
    [conan |-> [name |-> name, version |-> version, user |-> UserU, channel |-> ChannelC],
     package_id |-> PidP]

Refs == {PackageReference(NameA, v) : v \in Versions} \cup {PackageReference(NameAB, V1)}

\* str(ref): name/version@user/channel:package_id
RefStr(r) ==
    r.conan.name \o <<"/">> \o r.conan.version \o <<"@">> \o r.conan.user
        \o <<"/">> \o r.conan.channel \o <<":">> \o r.package_id

\* PackageReference.loads(text)
RefLoads(text) ==
    LET colon == Find(text, ":", 1)
        conan == SubSeq(text, 1, colon - 1)
        at == Find(conan, "@", 1)
        nv == SubSeq(conan, 1, at - 1)
        uc == SubSeq(conan, at + 1, Len(conan))
        s1 == Find(nv, "/", 1)
        s2 == Find(uc, "/", 1)
    IN  [conan |-> [name |-> SubSeq(nv, 1, s1 - 1),
                    version |-> SubSeq(nv, s1 + 1, Len(nv)),
                    user |-> SubSeq(uc, 1, s2 - 1),
                    channel |-> SubSeq(uc, s2 + 1, Len(uc))],
         package_id |-> SubSeq(text, colon + 1, Len(text))]

\* tuple order of PackageReference(conan(name, version, user, channel), package_id)
RefLt(a, b) ==
    LET ka == <<a.conan.name, a.conan.version, a.conan.user, a.conan.channel, a.package_id>>
        kb == <<b.conan.name, b.conan.version, b.conan.user, b.conan.channel, b.package_id>>
    IN  \E i \in 1..5 : /\ StrLt(ka[i], kb[i])
                        /\ \A j \in 1..(i - 1) : ka[j] = kb[j]

\* Version.stable(): the version without its pre-release marker
Stable(v) == SelectSeq(v, LAMBDA c : c # "b")

\* sorted(xs) for a sequence of references (duplicates kept)
RECURSIVE Sorted(_)
Sorted(xs) ==
    IF xs = <<>> THEN <<>>
    ELSE LET i == CHOOSE i \in 1..Len(xs) :
                      \A j \in 1..Len(xs) : ~RefLt(xs[j], xs[i])
         IN  <<xs[i]>> \o Sorted(SubSeq(xs, 1, i - 1) \o SubSeq(xs, i + 1, Len(xs)))

----------------------------------------------------------------------------
(* Python dict with PackageReference keys: entries in insertion order *)

DictHas(d, k) == \E i \in 1..Len(d) : d[i].key = k

DictGet(d, k) == d[CHOOSE i \in 1..Len(d) : d[i].key = k].val

DictSet(d, k, v) ==
    IF DictHas(d, k)
    THEN [i \in 1..Len(d) |-> IF d[i].key = k THEN [key |-> k, val |-> v] ELSE d[i]]
    ELSE Append(d, [key |-> k, val |-> v])

DictKeys(d) == [i \in 1..Len(d) |-> d[i].key]

----------------------------------------------------------------------------
(* class RequirementInfo *)

RequirementInfoKeepsIndirect(value_str, indirect) ==
    LET ref == RefLoads(value_str)
    IN  [package |-> ref,
         full_name |-> ref.conan.name,
         full_version |-> ref.conan.version,
         full_user |-> ref.conan.user,
         full_channel |-> ref.conan.channel,
         full_package_id |-> ref.package_id,
         name |-> ref.conan.name,
         version |-> Stable(ref.conan.version),
         user |-> None,
         channel |-> None,
         package_id |-> None]

\* RequirementInfo.__init__(value_str, indirect)
RequirementInfo(value_str, indirect) ==
    LET ref == RefLoads(value_str)
    IN  [package |-> ref,
         full_name |-> ref.conan.name,
         full_version |-> ref.conan.version,
         full_user |-> ref.conan.user,
         full_channel |-> ref.conan.channel,
         full_package_id |-> ref.package_id,
         name |-> IF indirect THEN None ELSE ref.conan.name,
         version |-> IF indirect THEN None ELSE Stable(ref.conan.version),
         user |-> None,
         channel |-> None,
         package_id |-> None]

IdentityFields(info) == <<info.name, info.version, info.user, info.channel, info.package_id>>

\* RequirementInfo.dumps(): the non-empty identity fields joined by "/"
RequirementInfoDumps(info) == Join(SelectSeq(IdentityFields(info), Truthy), <<"/">>)

RequirementInfoShaOmitsEmpty(info) == Join(SelectSeq(IdentityFields(info), Truthy), <<"/">>)

\* RequirementInfo.sha: str() of all five identity fields joined by "/"
RequirementInfoSha(info) ==
    Join([i \in 1..5 |-> Str(IdentityFields(info)[i])], <<"/">>)

\* RequirementInfo.serialize()
RequirementInfoSerialize(info) == RefStr(info.package)

----------------------------------------------------------------------------
(* class RequirementsInfo: _data (a dict) and _non_devs_requirements *)

NoFilter == [none |-> TRUE, names |-> {}]
NameFilter(ns) == [none |-> FALSE, names |-> ns]
Filters == {NoFilter} \cup {NameFilter(ns) : ns \in SUBSET Names}

\* the dict comprehension of RequirementsInfo.__init__
RECURSIVE FromRequires(_, _)
FromRequires(d, requires) ==
    IF requires = <<>> THEN d
    ELSE FromRequires(DictSet(d, requires[1], RequirementInfo(RefStr(requires[1]), FALSE)),
                      Tail(requires))

\* RequirementsInfo.add(indirect_reqs)
RECURSIVE RequirementsAdd(_, _)
RequirementsAdd(d, indirect_reqs) ==
    IF indirect_reqs = <<>> THEN d
    ELSE RequirementsAdd(DictSet(d, indirect_reqs[1],
                                 RequirementInfo(RefStr(indirect_reqs[1]), TRUE)),
                         Tail(indirect_reqs))

\* the keys visited by RequirementsInfo.sha and RequirementsInfo.dumps
KeysInsertionOrder(d) == DictKeys(d)
KeyOrder(d) == Sorted(DictKeys(d))

NonDev(ndr, key) == key.conan.name \in ndr.names

\* the list joined and hashed by RequirementsInfo.sha
ShaLinesAll(d, ndr) ==
    LET keys == KeyOrder(d)
    IN  [i \in 1..Len(keys) |-> RequirementInfoSha(DictGet(d, keys[i]))]

ShaLines(d, ndr) ==
    LET keys == KeyOrder(d)
        used == IF ndr.none THEN keys ELSE SelectSeq(keys, LAMBDA k : NonDev(ndr, k))
    IN  [i \in 1..Len(used) |-> RequirementInfoSha(DictGet(d, used[i]))]

\* RequirementsInfo.sha
RequirementsSha(d, ndr) == sha1(JoinLines(ShaLines(d, ndr)))

\* RequirementsInfo.dumps()
RequirementsDumps(d, ndr) ==
    LET keys == KeyOrder(d)
        line(ref) ==
            LET dumped == RequirementInfoDumps(DictGet(d, ref))
                dev == ~ndr.none /\ ref.conan.name \notin ndr.names
            IN  IF dev THEN dumped \o <<" ", "D", "E", "V">> ELSE dumped
        kept == SelectSeq(keys, LAMBDA k : RequirementInfoDumps(DictGet(d, k)) # <<>>)
    IN  JoinLines([i \in 1..Len(kept) |-> line(kept[i])])

\* RequirementsInfo.__getitem__(item): the matches and the outcome
Matches(d, item) == SelectSeq(DictKeys(d), LAMBDA v : StartsWith(RefStr(v), item))

ConanException == <<"ConanException">>

GetItemFirstMatch(d, item) ==
    LET matches == Matches(d, item)
    IN  IF Len(matches) >= 1
        THEN [ok |-> TRUE, val |-> DictGet(d, matches[1])]
        ELSE [ok |-> FALSE, val |-> ConanException]

GetItem(d, item) ==
    LET matches == Matches(d, item)
    IN  IF Len(matches) = 1
        THEN [ok |-> TRUE, val |-> DictGet(d, matches[1])]
        ELSE [ok |-> FALSE, val |-> ConanException]

\* RequirementsInfo.serialize(): {str(ref): requinfo.serialize()}
RequirementsSerialize(d) ==
    [i \in 1..Len(d) |-> [key |-> RefStr(d[i].key), val |-> RequirementInfoSerialize(d[i].val)]]

\* RequirementsInfo.deserialize(data): RequirementsInfo({}, None), then one direct record per item
RequirementsDeserialize(data) ==
    LET RECURSIVE fill(_, _)
        fill(d, rest) ==
            IF rest = <<>> THEN d
            ELSE fill(DictSet(d, RefLoads(rest[1].key), RequirementInfo(rest[1].val, FALSE)),
                      Tail(rest))
    IN  fill(<<>>, data)

----------------------------------------------------------------------------
(* class RequirementsList(list) *)

\* RequirementsList.serialize()
ListSerialize(l) == LET s == Sorted(l) IN [i \in 1..Len(s) |-> RefStr(s[i])]

\* RequirementsList.dumps()
ListDumps(l) == JoinLines(ListSerialize(l))

\* RequirementsList.deserialize(data)
ListDeserialize(data) == [i \in 1..Len(data) |-> RefLoads(data[i])]

\* RequirementsList.loads(text)
ListLoads(text) == ListDeserialize(SplitLines(text))

----------------------------------------------------------------------------
(* Collaborators of ConanInfo: Values (settings), OptionsValues, Scopes,   *)
(* ConfigParser.  Settings are "key=value" lines; an option is a line,     *)
(* optionally scoped to a package ("pkg:line") and flagged indirect.       *)

OsLine == <<"o", "s", "=", "1">>
SettingsDomain == {<<>>, <<OsLine>>}

OptOwn == [pkg |-> <<>>, text |-> <<"x", "=", "1">>, indirect |-> FALSE]
OptAB == [pkg |-> NameAB, text |-> <<"y", "=", "1">>, indirect |-> FALSE]
OptA == [pkg |-> NameA, text |-> <<"z", "=", "1">>, indirect |-> TRUE]
OptionsDomain == {<<OptOwn, OptAB, OptA>>}

\* Values.dumps / Values.loads / Values.sha
ValuesDumps(v) == JoinLines(v)
ValuesLoads(text) == SelectSeq(SplitLines(text), LAMBDA l : l # <<>>)
ValuesSha(v) == sha1(ValuesDumps(v))

\* OptionsValues.clear_indirect / dumps / loads / sha(non_dev_requirements)
ClearIndirect(o) == SelectSeq(o, LAMBDA e : ~e.indirect)
OptionLine(e) == IF e.pkg = <<>> THEN e.text ELSE e.pkg \o <<":">> \o e.text
OptionsDumps(o) == JoinLines([i \in 1..Len(o) |-> OptionLine(o[i])])
OptionLoad(l) ==
    LET c == Find(l, ":", 1)
    IN  IF c = 0 THEN [pkg |-> <<>>, text |-> l, indirect |-> FALSE]
        ELSE [pkg |-> SubSeq(l, 1, c - 1), text |-> SubSeq(l, c + 1, Len(l)),
              indirect |-> FALSE]
OptionsLoads(text) ==
    LET ls == SelectSeq(SplitLines(text), LAMBDA l : l # <<>>)
    IN  [i \in 1..Len(ls) |-> OptionLoad(ls[i])]
OptionsSha(o, ndr) ==
    LET used == SelectSeq(o, LAMBDA e : e.pkg = <<>> \/ ndr.none \/ e.pkg \in ndr.names)
    IN  sha1(JoinLines([i \in 1..Len(used) |-> OptionLine(used[i])]))

\* Scopes.loads / Scopes.dumps; a Scopes value is truthy when it has lines
ScopesLoads(text) == SelectSeq(SplitLines(text), LAMBDA l : l # <<>>)
ScopesDumps(sc) == JoinLines(sc)

Hdr_settings == <<"[", "s", "e", "t", "t", "i", "n", "g", "s", "]">>
Hdr_requires == <<"[", "r", "e", "q", "u", "i", "r", "e", "s", "]">>
Hdr_options == <<"[", "o", "p", "t", "i", "o", "n", "s", "]">>
Hdr_full_settings == <<"[", "f", "u", "l", "l", "_", "s", "e", "t", "t", "i", "n", "g", "s", "]">>
Hdr_full_requires == <<"[", "f", "u", "l", "l", "_", "r", "e", "q", "u", "i", "r", "e", "s", "]">>
Hdr_full_options == <<"[", "f", "u", "l", "l", "_", "o", "p", "t", "i", "o", "n", "s", "]">>
Hdr_scope == <<"[", "s", "c", "o", "p", "e", "]">>

SectionNames ==
    <<Hdr_settings, Hdr_full_settings, Hdr_options, Hdr_full_options,
      Hdr_requires, Hdr_full_requires, Hdr_scope>>

RECURSIVE Strip(_)
Strip(l) ==
    IF l = <<>> THEN l
    ELSE IF Head(l) = " " THEN Strip(Tail(l))
    ELSE IF l[Len(l)] = " " THEN Strip(SubSeq(l, 1, Len(l) - 1))
    ELSE l

IsHeader(l) == \E i \in 1..Len(SectionNames) : SectionNames[i] = l

\* ConfigParser(text, allowed_fields).<section>: the stripped, non-empty lines
\* that follow the section's header up to the next header, joined by "\n"
ParserSection(text, hdr) ==
    LET ls == SplitLines(text)
        stripped == [i \in 1..Len(ls) |-> Strip(ls[i])]
        body == SelectSeq([i \in 1..Len(ls) |->
                    IF /\ stripped[i] # <<>>
                       /\ ~IsHeader(stripped[i])
                       /\ \E h \in 1..(i - 1) :
                            /\ stripped[h] = hdr
                            /\ \A j \in (h + 1)..(i - 1) : ~IsHeader(stripped[j])
                    THEN stripped[i] ELSE <<>>],
                    LAMBDA l : l # <<>>)
    IN  JoinLines(body)

----------------------------------------------------------------------------
(* class ConanInfo: pure parts *)

ScopeUnset == [tag |-> "unset", val |-> <<>>]      \* attribute never assigned
ScopeNone == [tag |-> "none", val |-> <<>>]        \* scope = None
ScopeOf(sc) == [tag |-> "scopes", val |-> sc]

AttributeError == <<"AttributeError">>

Indent(text) ==
    LET ls == SplitLines(text)
    IN  JoinLines([i \in 1..Len(ls) |-> <<" ", " ", " ", " ">> \o ls[i]])

\* ConanInfo.dumps() up to the test of self.scope
DumpsHead(o) ==
    JoinTexts(<< <<Hdr_settings>>,
                 Indent(ValuesDumps(o.settings)),
                 <<<<>>, Hdr_requires>>,
                 Indent(RequirementsDumps(o.req_data, o.req_ndr)),
                 <<<<>>, Hdr_options>>,
                 Indent(OptionsDumps(o.options)),
                 <<<<>>, Hdr_full_settings>>,
                 Indent(ValuesDumps(o.full_settings)),
                 <<<<>>, Hdr_full_requires>>,
                 Indent(ListDumps(o.full_requires)),
                 <<<<>>, Hdr_full_options>>,
                 Indent(OptionsDumps(o.full_options)),
                 <<<<>>, Hdr_scope>> >>)

\* ConanInfo.dumps(): reading a scope attribute that was never set raises
InfoDumps(o) ==
    IF o.scope.tag = "unset" THEN [ok |-> FALSE, val |-> AttributeError]
    ELSE IF o.scope.tag = "scopes" /\ o.scope.val # <<>>
    THEN [ok |-> TRUE, val |-> JoinTexts(<<DumpsHead(o), Indent(ScopesDumps(o.scope.val))>>)]
    ELSE [ok |-> TRUE, val |-> DumpsHead(o)]

\* ConanInfo.serialize(): six fields, no scope
InfoSerialize(o) ==
    [settings |-> ValuesDumps(o.settings),
     full_settings |-> ValuesDumps(o.full_settings),
     options |-> OptionsDumps(o.options),
     full_options |-> OptionsDumps(o.full_options),
     requires |-> RequirementsSerialize(o.req_data),
     full_requires |-> ListSerialize(o.full_requires)]

\* full_requires as ConanInfo.create builds it: RequirementsList(requires), then extend
RECURSIVE Dedup(_)
Dedup(xs) ==
    IF xs = <<>> THEN <<>>
    ELSE LET front == SubSeq(xs, 1, Len(xs) - 1)
             last == xs[Len(xs)]
         IN  IF \E i \in 1..Len(front) : front[i] = last
             THEN Dedup(front) ELSE Append(Dedup(front), last)

CreateFullRequiresDedup(requires, indirect_requires) ==
    Dedup(requires \o indirect_requires)

CreateFullRequires(requires, indirect_requires) == requires \o indirect_requires

\* the value ConanInfo.package_id() computes when nothing is cached
ComputePackageId(o, ndr) ==
    sha1(JoinLines(<<ValuesSha(o.settings), OptionsSha(o.options, ndr),
                     RequirementsSha(o.req_data, o.req_ndr)>>))

----------------------------------------------------------------------------
(* State *)

VARIABLES
    kind,              \* "none", or how the object was built: "create", "loads",
                       \* "deserialize" (a ConanInfo), "reqs" (a bare RequirementsInfo)
    settings, full_settings, options, full_options,
    req_data,          \* requires._data
    req_ndr,           \* requires._non_devs_requirements
    full_requires,
    scope,
    info_ndr,          \* ConanInfo._non_devs_requirements: [set, val]
    package_id_cache,  \* ConanInfo._package_id: [set, val]
    calls,             \* invocations of the three sha collaborators by package_id
    ret,               \* outcome of the last call: [op, arg, ok, val]
    in_direct, in_indirect, in_extended, n_added, mutated,   \* inputs given to a
                       \* created object so far
    src                \* the object a parsed one was rebuilt from: [kind, mutated, text]

vars == <<kind, settings, full_settings, options, full_options, req_data, req_ndr,
          full_requires, scope, info_ndr, package_id_cache, calls, ret,
          in_direct, in_indirect, in_extended, n_added, mutated, src>>

infoVars == <<settings, full_settings, options, full_options, full_requires, scope,
              info_ndr, package_id_cache, calls, in_extended, n_added, mutated, src>>

Self ==
    [settings |-> settings, full_settings |-> full_settings, options |-> options,
     full_options |-> full_options, req_data |-> req_data, req_ndr |-> req_ndr,
     full_requires |-> full_requires, scope |-> scope]

NoRet == [op |-> "none", arg |-> <<>>, ok |-> TRUE, val |-> <<>>]
NoCalls == [settings_sha |-> 0, options_sha |-> 0, requires_sha |-> 0]
Unset == [set |-> FALSE, val |-> <<>>]
NoSrc == [kind |-> "none", mutated |-> FALSE, text |-> << <<>> >>]

SeqsUpTo(n) == UNION {[1..k -> Refs] : k \in 0..n}
Used == Len(in_direct) + Len(in_indirect) + Len(in_extended) + n_added

Init ==
    /\ kind = "none"
    /\ settings = <<>> /\ full_settings = <<>>
    /\ options = <<>> /\ full_options = <<>>
    /\ req_data = <<>> /\ req_ndr = NoFilter
    /\ full_requires = <<>>
    /\ scope = ScopeUnset
    /\ info_ndr = Unset
    /\ package_id_cache = Unset
    /\ calls = NoCalls
    /\ ret = NoRet
    /\ in_direct = <<>> /\ in_indirect = <<>> /\ in_extended = <<>>
    /\ n_added = 0 /\ mutated = FALSE
    /\ src = NoSrc

----------------------------------------------------------------------------
(* ConanInfo operations *)

Ret(op, arg, ok, val) == [op |-> op, arg |-> arg, ok |-> ok, val |-> val]

\* ConanInfo.create(settings, options, requires, indirect_requires, non_devs_requirements)
Create(s, o, requires, indirect_requires, ndr) ==
    /\ kind = "none"
    /\ kind' = "create"
    /\ full_settings' = s
    /\ settings' = s
    /\ full_options' = o
    /\ options' = ClearIndirect(o)
    /\ full_requires' = CreateFullRequires(requires, indirect_requires)
    /\ req_data' = RequirementsAdd(FromRequires(<<>>, requires), indirect_requires)
    /\ req_ndr' = ndr
    /\ scope' = ScopeNone
    /\ info_ndr' = [set |-> TRUE, val |-> ndr]
    /\ in_direct' = requires
    /\ in_indirect' = indirect_requires
    /\ ret' = Ret("create", <<>>, TRUE, <<>>)
    /\ UNCHANGED <<package_id_cache, calls, in_extended, n_added, mutated, src>>

\* ConanInfo.loads(text), text being the dump the last call returned
Loads ==
    /\ kind \in {"create", "loads", "deserialize"}
    /\ ret.op = "dumps" /\ ret.ok
    /\ LET text == ret.val
           fr == ListLoads(ParserSection(text, Hdr_full_requires))
       IN  /\ settings' = ValuesLoads(ParserSection(text, Hdr_settings))
           /\ full_settings' = ValuesLoads(ParserSection(text, Hdr_full_settings))
           /\ options' = OptionsLoads(ParserSection(text, Hdr_options))
           /\ full_options' = OptionsLoads(ParserSection(text, Hdr_full_options))
           /\ full_requires' = fr
           /\ req_data' = FromRequires(<<>>, fr)
           /\ req_ndr' = NoFilter
           /\ scope' = ScopeOf(ScopesLoads(ParserSection(text, Hdr_scope)))
           /\ src' = [kind |-> kind, mutated |-> mutated, text |-> text]
    /\ kind' = "loads"
    /\ info_ndr' = Unset
    /\ package_id_cache' = Unset
    /\ calls' = NoCalls
    /\ ret' = Ret("loads", <<>>, TRUE, <<>>)
    /\ in_direct' = <<>> /\ in_indirect' = <<>> /\ in_extended' = <<>>
    /\ n_added' = 0 /\ mutated' = FALSE

\* ConanInfo.deserialize(data), data being serialize() of the current object
Deserialize ==
    /\ kind \in {"create", "loads", "deserialize"}
    /\ LET data == InfoSerialize(Self)
       IN  /\ settings' = ValuesLoads(data.settings)
           /\ full_settings' = ValuesLoads(data.full_settings)
           /\ options' = OptionsLoads(data.options)
           /\ full_options' = OptionsLoads(data.full_options)
           /\ req_data' = RequirementsDeserialize(data.requires)
           /\ req_ndr' = NoFilter
           /\ full_requires' = ListDeserialize(data.full_requires)
    /\ kind' = "deserialize"
    /\ scope' = ScopeUnset
    /\ info_ndr' = Unset
    /\ package_id_cache' = Unset
    /\ calls' = NoCalls
    /\ ret' = Ret("deserialize", <<>>, TRUE, <<>>)
    /\ src' = [kind |-> kind, mutated |-> mutated, text |-> << <<>> >>]
    /\ in_direct' = <<>> /\ in_indirect' = <<>> /\ in_extended' = <<>>
    /\ n_added' = 0 /\ mutated' = FALSE

\* ConanInfo.dumps()
Dumps ==
    /\ kind \in {"create", "loads", "deserialize"}
    /\ ret' = Ret("dumps", <<>>, InfoDumps(Self).ok, InfoDumps(Self).val)
    /\ UNCHANGED <<kind, settings, full_settings, options, full_options, req_data, req_ndr,
                   full_requires, scope, info_ndr, package_id_cache, calls,
                   in_direct, in_indirect, in_extended, n_added, mutated, src>>

\* whether package_id() returns the memoized value
UsesCacheNever(cache) == FALSE

UsesCache(cache) == cache.set /\ cache.val # <<>>

\* ConanInfo.package_id()
PackageId ==
    /\ kind \in {"create", "loads", "deserialize"}
    /\ IF UsesCache(package_id_cache)
       THEN /\ ret' = Ret("package_id", <<>>, TRUE, package_id_cache.val)
            /\ UNCHANGED <<package_id_cache, calls>>
       ELSE IF ~info_ndr.set
       THEN \* settings.sha was taken, then self._non_devs_requirements is missing
            /\ calls.settings_sha < MaxCalls
            /\ ret' = Ret("package_id", <<>>, FALSE, AttributeError)
            /\ calls' = [calls EXCEPT !.settings_sha = @ + 1]
            /\ UNCHANGED package_id_cache
       ELSE /\ calls.settings_sha < MaxCalls
            /\ package_id_cache' = [set |-> TRUE, val |-> ComputePackageId(Self, info_ndr.val)]
            /\ ret' = Ret("package_id", <<>>, TRUE, ComputePackageId(Self, info_ndr.val))
            /\ calls' = [settings_sha |-> calls.settings_sha + 1,
                         options_sha |-> calls.options_sha + 1,
                         requires_sha |-> calls.requires_sha + 1]
    /\ UNCHANGED <<kind, settings, full_settings, options, full_options, req_data, req_ndr,
                   full_requires, scope, info_ndr,
                   in_direct, in_indirect, in_extended, n_added, mutated, src>>

\* info.requires.add([r]) by a caller, after construction
RequiresAdd(r) ==
    /\ kind = "create"
    /\ Used < MaxReqs
    /\ req_data' = RequirementsAdd(req_data, <<r>>)
    /\ n_added' = n_added + 1
    /\ mutated' = TRUE
    /\ ret' = Ret("add", <<>>, TRUE, <<>>)
    /\ UNCHANGED <<kind, settings, full_settings, options, full_options, req_ndr,
                   full_requires, scope, info_ndr, package_id_cache, calls,
                   in_direct, in_indirect, in_extended, src>>

\* info.full_requires.extend([r]) by a caller, after construction
FullRequiresExtend(r) ==
    /\ kind = "create"
    /\ Used < MaxReqs
    /\ full_requires' = full_requires \o <<r>>
    /\ in_extended' = Append(in_extended, r)
    /\ mutated' = TRUE
    /\ ret' = Ret("extend", <<>>, TRUE, <<>>)
    /\ UNCHANGED <<kind, settings, full_settings, options, full_options, req_data, req_ndr,
                   scope, info_ndr, package_id_cache, calls,
                   in_direct, in_indirect, n_added, src>>

InputPairs ==
    {p \in SeqsUpTo(MaxReqs) \X SeqsUpTo(MaxReqs) : Len(p[1]) + Len(p[2]) <= MaxReqs}

Next ==
    \/ \E s \in SettingsDomain, o \in OptionsDomain, f \in Filters, p \in InputPairs :
            Create(s, o, p[1], p[2], f)
    \/ Loads
    \/ Deserialize
    \/ Dumps
    \/ PackageId
    \/ \E r \in Refs : RequiresAdd(r)
    \/ \E r \in Refs : FullRequiresExtend(r)

Spec == Init /\ [][Next]_vars

----------------------------------------------------------------------------
(* RequirementsInfo used on its own *)

\* RequirementsInfo.__init__(requires, non_devs_requirements)
ReqNew(requires, ndr) ==
    /\ kind = "none"
    /\ kind' = "reqs"
    /\ req_data' = FromRequires(<<>>, requires)
    /\ req_ndr' = ndr
    /\ in_direct' = requires
    /\ ret' = Ret("new", <<>>, TRUE, <<>>)
    /\ UNCHANGED <<in_indirect, infoVars>>

\* RequirementsInfo.add(indirect_reqs)
ReqAdd(indirect_reqs) ==
    /\ kind = "reqs"
    /\ indirect_reqs # <<>>
    /\ Used + Len(indirect_reqs) <= MaxReqs
    /\ req_data' = RequirementsAdd(req_data, indirect_reqs)
    /\ in_indirect' = in_indirect \o indirect_reqs
    /\ ret' = Ret("add", <<>>, TRUE, <<>>)
    /\ UNCHANGED <<kind, req_ndr, in_direct, infoVars>>

\* RequirementsInfo.sha
ReqSha ==
    /\ kind = "reqs"
    /\ ret' = Ret("sha", <<>>, TRUE, RequirementsSha(req_data, req_ndr))
    /\ UNCHANGED <<kind, req_data, req_ndr, in_direct, in_indirect, infoVars>>

\* RequirementsInfo.dumps()
ReqDumps ==
    /\ kind = "reqs"
    /\ ret' = Ret("dumps", <<>>, TRUE, RequirementsDumps(req_data, req_ndr))
    /\ UNCHANGED <<kind, req_data, req_ndr, in_direct, in_indirect, infoVars>>

Prefixes ==
    {SubSeq(RefStr(r), 1, k) : r \in Refs, k \in 0..MaxPrefix} \cup {<<"B">>}

\* RequirementsInfo.__getitem__(item)
ReqGetItem(item) ==
    /\ kind = "reqs"
    /\ ret' = Ret("getitem", item, GetItem(req_data, item).ok, GetItem(req_data, item).val)
    /\ UNCHANGED <<kind, req_data, req_ndr, in_direct, in_indirect, infoVars>>

NextReqs ==
    \/ \E d \in SeqsUpTo(MaxReqs), f \in Filters : ReqNew(d, f)
    \/ \E i \in SeqsUpTo(MaxReqs) : ReqAdd(i)
    \/ ReqSha
    \/ ReqDumps
    \/ \E item \in Prefixes : ReqGetItem(item)

SpecReqs == Init /\ [][NextReqs]_vars

----------------------------------------------------------------------------
(* Properties *)

Range(xs) == {xs[i] : i \in 1..Len(xs)}
NoDup(xs) == \A i, j \in 1..Len(xs) : xs[i] = xs[j] => i = j
Count(xs, x) == Cardinality({i \in 1..Len(xs) : xs[i] = x})
PermsOf(xs) == {[i \in 1..Len(xs) |-> xs[f[i]]] : f \in Permutations(1..Len(xs))}

BuildSet(d, i) == RequirementsAdd(FromRequires(<<>>, d), i)
KeySet == Range(DictKeys(req_data))
OnlyIndirect == Range(in_indirect) \ Range(in_direct)
OnlyDirect == Range(in_direct) \ Range(in_indirect)
Relevant(name) == req_ndr.none \/ name \in req_ndr.names
WithVersion(k, v) == [k EXCEPT !.conan.version = v]
Replace(xs, k, k2) == [i \in 1..Len(xs) |-> IF xs[i] = k THEN k2 ELSE xs[i]]
Between(x, a, b) == (RefLt(a, x) /\ RefLt(x, b)) \/ (RefLt(b, x) /\ RefLt(x, a))
ShaTaken == kind = "reqs" /\ ret.op = "sha"

\* C1: a created, untouched object that is dumped, parsed and dumped again gives
\* the text that was parsed.
C1_RoundTrip ==
    (kind = "loads" /\ src.kind = "create" /\ ~src.mutated /\ ret.op = "dumps")
        => (ret.ok /\ ret.val = src.text)

\* The round trip does hold whenever the parsed object dumps the [requires]
\* section it was parsed from (no indirect requirement, no dev requirement).
RoundTripWhenRequiresAgree ==
    (kind = "loads" /\ src.kind = "create" /\ ~src.mutated /\ ret.op = "dumps"
        /\ RequirementsDumps(req_data, req_ndr) = ParserSection(src.text, Hdr_requires))
        => (ret.ok /\ ret.val = src.text)

C2_IndirectSame(k, k2) ==
    RequirementsSha(BuildSet(in_direct, Replace(in_indirect, k, k2)), req_ndr) = ret.val

C2_DirectCounts ==
    \A k \in OnlyDirect : \A v \in Versions :
        (Relevant(k.conan.name) /\ Stable(v) # Stable(k.conan.version)) =>
            RequirementsSha(BuildSet(Replace(in_direct, k, WithVersion(k, v)), in_indirect),
                            req_ndr) # ret.val

C2_Stays(k, k2) ==
    \/ ~Relevant(k.conan.name)
    \/ /\ k2 \notin KeySet
       /\ \A x \in OnlyDirect : ~Between(x, k, k2)

\* C2 (as stated): changing the version of an indirect-only requirement (to a
\* reference that is not yet a requirement) never changes the requirements hash,
\* and changing a relevant direct-only requirement to a version with another
\* stable form always changes it.
C2_DiamondStability ==
    ShaTaken =>
        /\ \A k \in OnlyIndirect : \A v \in Versions \ {k.conan.version} :
              WithVersion(k, v) \notin KeySet => C2_IndirectSame(k, WithVersion(k, v))
        /\ C2_DirectCounts

\* C2 (amended): the indirect replacement (to a reference that is not a direct
\* requirement) leaves the hash unchanged exactly when the name is not
\* identity-relevant, or the new reference is not yet a key and no direct key
\* sorts between the old and the new reference; the direct replacement always
\* changes the hash.
C2_DiamondStabilityAmended ==
    ShaTaken =>
        /\ \A k \in OnlyIndirect : \A v \in Versions \ {k.conan.version} :
              WithVersion(k, v) \notin Range(in_direct) =>
                  (C2_IndirectSame(k, WithVersion(k, v)) <=> C2_Stays(k, WithVersion(k, v)))
        /\ C2_DirectCounts

C2_Witness ==
    /\ ShaTaken
    /\ \E k \in OnlyDirect : Relevant(k.conan.name)
    /\ \E k \in OnlyIndirect : \E v \in Versions \ {k.conan.version} :
          /\ Relevant(k.conan.name)
          /\ WithVersion(k, v) \notin KeySet
          /\ ~C2_Stays(k, WithVersion(k, v))

\* C3: permuting the direct and the indirect requirement lists given to create
\* changes neither package_id() nor the list of lines the requirements hash joins.
C3_Determinism ==
    (kind = "create" /\ ~mutated /\ ret.op = "package_id" /\ ret.ok) =>
        \A d \in PermsOf(in_direct) : \A i \in PermsOf(in_indirect) :
            /\ ComputePackageId([Self EXCEPT !.req_data = BuildSet(d, i)], info_ndr.val)
                 = ret.val
            /\ ShaLines(BuildSet(d, i), req_ndr) = ShaLines(req_data, req_ndr)

C3_Witness ==
    /\ kind = "create" /\ ~mutated /\ ret.op = "package_id" /\ ret.ok
    /\ Len(req_data) = 2
    /\ RefLt(req_data[2].key, req_data[1].key)
    /\ \E k \in KeySet : Relevant(k.conan.name)

RelevantRecords(d, ndr) == {d[i] : i \in {j \in 1..Len(d) : NonDev(ndr, d[j].key)}}

\* C4: under a name filter, two requirement sets that hold the same records under
\* the names of the filter have the same hash, whatever else they hold.
C4_DevExclusion ==
    (ShaTaken /\ ~req_ndr.none) =>
        \A p \in InputPairs :
            RelevantRecords(BuildSet(p[1], p[2]), req_ndr) = RelevantRecords(req_data, req_ndr)
                => RequirementsSha(BuildSet(p[1], p[2]), req_ndr) = ret.val

C4_Witness ==
    /\ ShaTaken /\ ~req_ndr.none
    /\ \E k \in KeySet : NonDev(req_ndr, k)
    /\ \E k \in OnlyDirect : ~NonDev(req_ndr, k)

\* C5: on a created object, a package_id() call made once a value is cached returns
\* the cached value, takes no sha of settings, options or requires, and keeps the cache.
C5_Caching ==
    [][(kind = "create" /\ package_id_cache.set /\ ret'.op = "package_id")
         => (/\ ret'.ok
             /\ ret'.val = package_id_cache.val
             /\ calls' = calls
             /\ package_id_cache' = package_id_cache)]_vars

C5_Witness ==
    /\ kind = "create" /\ mutated
    /\ ret.op = "package_id" /\ ret.ok
    /\ ret.val = package_id_cache.val
    /\ ret.val # ComputePackageId(Self, info_ndr.val)
    /\ calls = [settings_sha |-> 1, options_sha |-> 1, requires_sha |-> 1]

RelevantKeys == SelectSeq(Sorted(DictKeys(req_data)), LAMBDA k : Relevant(k.conan.name))
IsIndirect(k) == k \in Range(in_indirect)
NoneText == <<"N", "o", "n", "e">>

C6_IdentityLine(k) ==
    IF IsIndirect(k) THEN <<>> ELSE k.conan.name \o <<"/">> \o Stable(k.conan.version)

C6_ShaLine(k) ==
    IF IsIndirect(k)
    THEN Join(<<NoneText, NoneText, NoneText, NoneText, NoneText>>, <<"/">>)
    ELSE Join(<<k.conan.name, Stable(k.conan.version), NoneText, NoneText, NoneText>>, <<"/">>)

\* C6 (as stated): the requirements hash is taken over the identity lines (empty
\* fields left out) of the relevant records in ascending key order.
C6_ShaOfIdentityLines ==
    ShaTaken =>
        ret.val = sha1(JoinLines([i \in 1..Len(RelevantKeys) |-> C6_IdentityLine(RelevantKeys[i])]))

\* C6 (amended): the hash is taken over the lines that spell all five identity
\* fields, an unset field as "None": name/version/None/None/None for a direct
\* record, None/None/None/None/None for an indirect one.
C6_ShaOfFieldLines ==
    ShaTaken =>
        ret.val = sha1(JoinLines([i \in 1..Len(RelevantKeys) |-> C6_ShaLine(RelevantKeys[i])]))

C6_Witness ==
    /\ ShaTaken
    /\ \E k \in OnlyDirect : Relevant(k.conan.name)
    /\ \E k \in Range(in_indirect) : Relevant(k.conan.name)

C7_MatchingKeys == {k \in KeySet : StartsWith(RefStr(k), ret.arg)}

\* C7: __getitem__ returns a record exactly when one key's text starts with the
\* item, and then that key's record; otherwise it raises; the mapping is as built.
C7_Lookup ==
    (kind = "reqs" /\ ret.op = "getitem") =>
        /\ (ret.ok <=> Cardinality(C7_MatchingKeys) = 1)
        /\ (ret.ok => \E k \in C7_MatchingKeys : ret.val = DictGet(req_data, k))
        /\ (~ret.ok => ret.val = ConanException)
        /\ req_data = BuildSet(in_direct, in_indirect)

C7_Witness ==
    /\ kind = "reqs" /\ ret.op = "getitem" /\ ~ret.ok
    /\ Cardinality(C7_MatchingKeys) = 2
    /\ \E a, b \in C7_MatchingKeys : a.conan.name # b.conan.name

\* C8 (as stated): no reference occurs twice in full_requires or in its dump.
C8_Deduplicated ==
    kind = "create" => (NoDup(full_requires) /\ NoDup(ListSerialize(full_requires)))

C8_Given == in_direct \o in_indirect \o in_extended

\* C8 (amended): full_requires is the direct list, then the indirect list, then
\* whatever was extended, every occurrence kept, and its dump lists each
\* reference as often as it was given.
C8_KeepsOccurrences ==
    kind = "create" =>
        /\ full_requires = C8_Given
        /\ \A r \in Refs : Count(ListSerialize(full_requires), RefStr(r)) = Count(C8_Given, r)
        /\ (NoDup(ListSerialize(full_requires)) <=> NoDup(C8_Given))

C8_Witness ==
    /\ kind = "create"
    /\ in_direct # <<>> /\ in_indirect # <<>>
    /\ Range(in_direct) \cap Range(in_indirect) # {}
    /\ ~NoDup(full_requires)

\* C9: on an object rebuilt by deserialize from a created object's serialize(),
\* dumps() returns, and the text ends with an empty [scope] section.
C9_ScopeAbsent ==
    (kind = "deserialize" /\ src.kind = "create" /\ ~src.mutated /\ ret.op = "dumps") =>
        (ret.ok /\ ret.val = DumpsHead(Self))

\* C10: on a parsed or deserialized object package_id() returns the hash of the
\* settings hash, the options hash taken with no filter, and the requires hash.
C10_PackageIdEverywhere ==
    (kind \in {"loads", "deserialize"} /\ ret.op = "package_id") =>
        (ret.ok /\ ret.val = ComputePackageId(Self, NoFilter))

====
